---- MODULE Spec2Model ----
(***************************************************************************)
(* Model of the RCPCHGrowth command line tool.                             *)
(*                                                                         *)
(* One behaviour is one process: the interpreter loads a module            *)
(* (rcpchgrowth_python_cli/__main__.py through the console script or as    *)
(* __main__, or the older cli/__main__.py as __main__), the click group    *)
(* dispatches one command, the command calls the rcpchgrowth library and   *)
(* echoes lines, and the process exits.                                    *)
(*                                                                         *)
(* Units: heights are in hundredths of a cm, a mid-parental height is in   *)
(* thousandths of a cm, an SDS is in millionths, dates are day ordinals,   *)
(* a decimal age argument is in whole years and a centile is in percent.   *)
(***************************************************************************)
EXTENDS Integers, Sequences, FiniteSets

VARIABLES pc, mode, defined, cmd, args, calls, out, exit, raised

vars == <<pc, mode, defined, cmd, args, calls, out, exit, raised>>

-----------------------------------------------------------------------------
(* Bounds of the input sets.                                               *)

MaxAge == 1
MaxDay == 1
MaxHeightStep == 1

-----------------------------------------------------------------------------
(* Input sets: the values click accepts for each parameter.                *)

References == {"uk-who", "trisomy-21", "turners-syndrome"}
Methods == {"height", "weight", "bmi", "ofc"}
Sexes == {"male", "female"}
AgeValues == 0..MaxAge
ObservationValues == {50}
DayValues == 0..MaxDay
ObservationDays == {365 + d : d \in DayValues}
GestationWeeks == {10, 30, 40, 45}
GestationDays == {-1, 0, 6, 7}
PpfTable == [c \in {2, 25, 50, 75, 98} |->
               CASE c = 2 -> -2053749
                 [] c = 25 -> -674490
                 [] c = 50 -> 0
                 [] c = 75 -> 674490
                 [] c = 98 -> 2053749]
CentileValues == {-5, 0, 100, 105} \cup DOMAIN PpfTable
HeightValues == {-500} \cup {17000 + h : h \in 0..MaxHeightStep} \cup {18000}

-----------------------------------------------------------------------------
(* Floating point values that may be non-finite.                           *)

Finite(micro) == [kind |-> "finite", micro |-> micro]
NegInf == [kind |-> "-inf", micro |-> 0]
PosInf == [kind |-> "inf", micro |-> 0]
NaN == [kind |-> "nan", micro |-> 0]
IsFinite(x) == x.kind = "finite"
SdsValues == {Finite(PpfTable[c]) : c \in DOMAIN PpfTable} \cup {Finite(1000000)}

(* scipy.stats.norm.ppf(centile / 100): -inf at 0, inf at 1, nan outside   *)
(* [0, 1], the quantile otherwise; nothing is raised.                      *)
NormPpf(centile) ==
    IF centile < 0 \/ centile > 100 THEN NaN
    ELSE IF centile = 0 THEN NegInf
    ELSE IF centile = 100 THEN PosInf
    ELSE Finite(PpfTable[centile])

(* round(x, 3) of an SDS: to the nearest thousandth; inf and nan stay.     *)
Round3(x) ==
    IF ~IsFinite(x) THEN x
    ELSE LET m == x.micro
             q == IF m >= 0 THEN (m + 500) \div 1000 ELSE -((-m + 500) \div 1000)
         IN Finite(q * 1000)

(* round(result, 2) of a height in thousandths of a cm, in hundredths: the *)
(* nearest hundredth; at a decimal tie the binary value of the float       *)
(* decides, so both neighbours are possible.                               *)
Round2Candidates(thou) ==
    LET lo == thou \div 10
        r  == thou % 10
    IN IF r < 5 THEN {lo} ELSE IF r > 5 THEN {lo + 1} ELSE {lo, lo + 1}

-----------------------------------------------------------------------------
(* Terminal output and the result of running a command body.               *)

Line(tag, val) == [tag |-> tag, val |-> val]
Run(c, o, e, r) == [calls |-> c, out |-> o, exit |-> e, raised |-> r]
Call(fn, a, outcome) == [fn |-> fn, args |-> a, outcome |-> outcome]

(* The banner echoed by the module body.                                   *)
Banner == Line("banner", "RCPCHGrowth")


-----------------------------------------------------------------------------
(* The rcpchgrowth library, as the commands consume it.                    *)

(* Gestations the library accepts.                                         *)
GestationValid(gestation_weeks, gestation_days) ==
    gestation_weeks \in 22..44 /\ gestation_days \in 0..6

(* date_calculations.estimated_date_delivery: the birth date advanced by   *)
(* 40 weeks minus the gestation.                                           *)
estimated_date_delivery(birth_date, gestation_weeks, gestation_days) ==
    birth_date + (280 - (7 * gestation_weeks + gestation_days))

(* date_calculations.chronological_decimal_age: the elapsed time between   *)
(* the dates, kept in days.                                                *)
chronological_decimal_age(birth_date, observation_date) ==
    [days |-> observation_date - birth_date]

(* date_calculations.chronological_calendar_age: the calendar breakdown of *)
(* the span from birth_date to observation_date.                           *)
chronological_calendar_age(birth_date, observation_date) ==
    [from |-> birth_date, to |-> observation_date]

(* date_calculations.corrected_decimal_age: the decimal age against the    *)
(* gestation-corrected birth date.                                         *)
corrected_decimal_age(birth_date, observation_date, gestation_weeks, gestation_days) ==
    chronological_decimal_age(
        estimated_date_delivery(birth_date, gestation_weeks, gestation_days),
        observation_date)

(* A library call that takes a gestation raises when it is out of range.   *)
GestationOutcome(gestation_weeks, gestation_days) ==
    IF GestationValid(gestation_weeks, gestation_days) THEN "ok" ELSE "raise"

(* The statistical engine either returns a value or raises: which          *)
(* (reference, method, sex, age) combinations have data, and what it does  *)
(* with a non-finite SDS, is the engine's own business.                    *)
EngineOutcomes == {"ok", "raise"}

(* The value the engine returns for a call: a function of its keyword      *)
(* arguments and of nothing else.                                          *)
EngineValue(fn, a) == [fn |-> fn, of |-> a]

(* global_functions.centile(z) and round(x, ndigits) of such a value.      *)
CentileOf(z) == [centile_of |-> z]
RoundTo(x, ndigits) == [round |-> x, ndigits |-> ndigits]

(* Heights global_functions.mid_parental_height accepts.                   *)
HeightValid(h) == h >= 10000 /\ h <= 25000

MidParentalOutcome(a) ==
    IF HeightValid(a.height_maternal) /\ HeightValid(a.height_paternal)
    THEN "ok" ELSE "raise"

(* global_functions.mid_parental_height, in thousandths of a cm.           *)
mid_parental_height(a) ==
    IF a.sex = "male"
    THEN (a.height_maternal + a.height_paternal + 1300) * 5
    ELSE (a.height_maternal + a.height_paternal - 1300) * 5

-----------------------------------------------------------------------------
(* rcpchgrowth_python_cli/__main__.py: the command bodies.                 *)

reference_to_string(reference) ==
    IF reference = "uk-who" THEN "UK-WHO"
    ELSE IF reference = "turners-syndrome" THEN "Turner's Syndrome"
    ELSE IF reference = "trisomy-21" THEN "Trisomy 21/Down's Syndrome"
    ELSE "Reference error."

(* Faulty variant of Suffix: the bmi branch is lost.                       *)
Suffix_without_bmi(measurement_method) ==
    IF measurement_method = "weight" THEN "kg" ELSE "cm"

(* The unit echoed after a measurement.                                    *)
Suffix(measurement_method) ==
    IF measurement_method = "weight" THEN "kg"
    ELSE IF measurement_method = "bmi" THEN "kg/m2"
    ELSE "cm"

HelpLine == Line("help", "age-calculation")

age_calculation(birth_date, observation_date, gestation_weeks, gestation_days, adjustment) ==
    IF adjustment
    THEN LET g  == [birth_date |-> birth_date, gestation_weeks |-> gestation_weeks,
                    gestation_days |-> gestation_days]
             o  == GestationOutcome(gestation_weeks, gestation_days)
             c1 == Call("corrected_decimal_age",
                        [birth_date |-> birth_date, observation_date |-> observation_date,
                         gestation_weeks |-> gestation_weeks,
                         gestation_days |-> gestation_days], o)
             c2 == Call("estimated_date_delivery", g, o)
             decimal_age == corrected_decimal_age(birth_date, observation_date,
                                                  gestation_weeks, gestation_days)
             corrected_birth_date ==
                 estimated_date_delivery(birth_date, gestation_weeks, gestation_days)
             c3 == Call("chronological_calendar_age",
                        [birth_date |-> corrected_birth_date,
                         observation_date |-> observation_date], "ok")
             calendar_age == chronological_calendar_age(c3.args.birth_date,
                                                        c3.args.observation_date)
         IN IF o = "raise"
            THEN Run(<<c1>>, <<HelpLine>>, 1, "ValidationError")
            ELSE Run(<<c1, c2, c3>>,
                     <<HelpLine,
                       Line("Adjusted", [decimal_age |-> decimal_age,
                                         calendar_age |-> calendar_age])>>,
                     0, "none")
    ELSE LET d  == [birth_date |-> birth_date, observation_date |-> observation_date]
             c1 == Call("chronological_decimal_age", d, "ok")
             c2 == Call("chronological_calendar_age", d, "ok")
             decimal_age == chronological_decimal_age(birth_date, observation_date)
             calendar_age == chronological_calendar_age(birth_date, observation_date)
         IN Run(<<c1, c2>>,
                <<HelpLine,
                  Line("Unadjusted", [decimal_age |-> decimal_age,
                                      calendar_age |-> calendar_age])>>,
                0, "none")

(* Faulty variant of sds_for_measurement: the Reference line is echoed     *)
(* before the library is called.                                           *)
sds_for_measurement_echo_first(names, decimal_age, measurement_method, observation_value, sex, reference, outcome) ==
    LET a == [reference |-> reference, age |-> decimal_age,
              measurement_method |-> measurement_method,
              observation_value |-> observation_value, sex |-> sex]
        c == Call("sds_for_measurement", a, outcome)
        result == EngineValue("sds_for_measurement", a)
        cent == CentileOf(result)
        first == <<Line("Reference", reference_to_string(reference))>>
    IN IF "reference_to_string" \notin names THEN Run(<<>>, <<>>, 1, "NameError")
       ELSE IF outcome = "raise" THEN Run(<<c>>, first, 1, "LibraryError")
       ELSE Run(<<c>>,
                first \o <<Line("SDS", [sds |-> result, centile |-> RoundTo(cent, 1)])>>,
                0, "none")

sds_for_measurement(names, decimal_age, measurement_method, observation_value, sex, reference, outcome) ==
    LET a == [reference |-> reference, age |-> decimal_age,
              measurement_method |-> measurement_method,
              observation_value |-> observation_value, sex |-> sex]
        c == Call("sds_for_measurement", a, outcome)
        result == EngineValue("sds_for_measurement", a)
        cent == CentileOf(result)
    IN IF outcome = "raise" THEN Run(<<c>>, <<>>, 1, "LibraryError")
       ELSE IF "reference_to_string" \notin names THEN Run(<<c>>, <<>>, 1, "NameError")
       ELSE Run(<<c>>,
                <<Line("Reference", reference_to_string(reference)),
                  Line("SDS", [sds |-> result, centile |-> RoundTo(cent, 1)])>>,
                0, "none")

(* The keyword arguments both measurement commands hand measurement_from_sds. *)
MeasurementFromSdsArgs(reference, requested_sds, measurement_method, sex, age) ==
    [reference |-> reference, requested_sds |-> requested_sds,
     measurement_method |-> measurement_method, sex |-> sex, age |-> age]

(* Faulty variant of measurement_for_centile: the SDS is rounded before    *)
(* the library call instead of only for display.                           *)
measurement_for_centile_rounded_sds(names, decimal_age, sex, measurement_method, centile, reference, outcome) ==
    LET sds == Round3(NormPpf(centile))
        a == [reference |-> reference, requested_sds |-> sds,
              measurement_method |-> measurement_method, sex |-> sex,
              age |-> decimal_age]
        c == Call("measurement_from_sds", a, outcome)
        result == EngineValue("measurement_from_sds", a)
        suffix == Suffix(measurement_method)
    IN IF outcome = "raise" THEN Run(<<c>>, <<>>, 1, "LibraryError")
       ELSE IF "reference_to_string" \notin names THEN Run(<<c>>, <<>>, 1, "NameError")
       ELSE Run(<<c>>,
                <<Line("Reference", reference_to_string(reference)),
                  Line("measurement",
                       [sds |-> sds, centile |-> centile,
                        measurement_method |-> measurement_method,
                        result |-> result, suffix |-> suffix])>>,
                0, "none")

measurement_for_centile(names, decimal_age, sex, measurement_method, centile, reference, outcome) ==
    LET sds == NormPpf(centile)
        a == MeasurementFromSdsArgs(reference, sds, measurement_method, sex, decimal_age)
        c == Call("measurement_from_sds", a, outcome)
        result == EngineValue("measurement_from_sds", a)
        suffix == Suffix(measurement_method)
    IN IF outcome = "raise" THEN Run(<<c>>, <<>>, 1, "LibraryError")
       ELSE IF "reference_to_string" \notin names THEN Run(<<c>>, <<>>, 1, "NameError")
       ELSE Run(<<c>>,
                <<Line("Reference", reference_to_string(reference)),
                  Line("measurement",
                       [sds |-> Round3(sds), centile |-> centile,
                        measurement_method |-> measurement_method,
                        result |-> result, suffix |-> suffix])>>,
                0, "none")

measurement_for_sds(names, reference, decimal_age, sex, measurement_method, sds, outcome) ==
    LET a == MeasurementFromSdsArgs(reference, sds, measurement_method, sex, decimal_age)
        c == Call("measurement_from_sds", a, outcome)
        result == EngineValue("measurement_from_sds", a)
        cent == CentileOf(sds)
        suffix == Suffix(measurement_method)
    IN IF outcome = "raise" THEN Run(<<c>>, <<>>, 1, "LibraryError")
       ELSE IF "reference_to_string" \notin names THEN Run(<<c>>, <<>>, 1, "NameError")
       ELSE Run(<<c>>,
                <<Line("Reference", reference_to_string(reference)),
                  Line("measurement",
                       [sds |-> sds, centile |-> RoundTo(cent, 3),
                        measurement_method |-> measurement_method,
                        result |-> result, suffix |-> suffix])>>,
                0, "none")

(* Faulty variant of midparental_height: the except branch falls through  *)
(* to the echo.                                                            *)
midparental_height_falls_through(maternal_height, paternal_height, sex, rounded) ==
    LET a == [height_paternal |-> paternal_height,
              height_maternal |-> maternal_height, sex |-> sex]
        c == Call("mid_parental_height", a, MidParentalOutcome(a))
    IN Run(<<c>>, <<Line("Midparental height", rounded)>>, 0, "none")

(* Faulty variant of midparental_height: the two heights are passed under  *)
(* each other's keyword.                                                   *)
midparental_height_swapped(maternal_height, paternal_height, sex, rounded) ==
    LET a == [height_paternal |-> maternal_height,
              height_maternal |-> paternal_height, sex |-> sex]
        c == Call("mid_parental_height", a, MidParentalOutcome(a))
    IN IF c.outcome = "raise" THEN Run(<<c>>, <<>>, 0, "none")
       ELSE Run(<<c>>, <<Line("Midparental height", rounded)>>, 0, "none")

(* The except branch returns the message to click, which drops a command's *)
(* return value: nothing is echoed and the process exits 0.                *)
midparental_height(maternal_height, paternal_height, sex, rounded) ==
    LET a == [height_paternal |-> paternal_height,
              height_maternal |-> maternal_height, sex |-> sex]
        c == Call("mid_parental_height", a, MidParentalOutcome(a))
    IN IF c.outcome = "raise" THEN Run(<<c>>, <<>>, 0, "none")
       ELSE Run(<<c>>, <<Line("Midparental height", rounded)>>, 0, "none")

(* The values round(result, 2) can take for the call's result; 0 stands in *)
(* where the call raised and there is no result.                           *)
MidparentalRounded(maternal_height, paternal_height, sex) ==
    LET a == [height_paternal |-> paternal_height,
              height_maternal |-> maternal_height, sex |-> sex]
    IN IF MidParentalOutcome(a) = "raise" THEN {0}
       ELSE Round2Candidates(mid_parental_height(a))

-----------------------------------------------------------------------------
(* cli/__main__.py: the older command bodies. The gestation arguments have *)
(* no click type, so the library receives them as strings.                 *)

(* What the library does with a string gestation is not fixed by the       *)
(* command: it may raise or read the number; an out-of-range one raises.   *)
CliGestationOutcomes(gestation_weeks, gestation_days) ==
    IF GestationValid(gestation_weeks, gestation_days) THEN {"ok", "raise"} ELSE {"raise"}

cli_age_calculation(birth_date, observation_date, gestation_weeks, gestation_days, adjustment, outcome) ==
    LET d == [birth_date |-> birth_date, observation_date |-> observation_date]
        calendar_age == chronological_calendar_age(birth_date, observation_date)
        c2 == Call("chronological_calendar_age", d, "ok")
    IN IF adjustment
       THEN LET c1 == Call("corrected_decimal_age",
                           [birth_date |-> birth_date,
                            observation_date |-> observation_date,
                            gestation_weeks |-> gestation_weeks,
                            gestation_days |-> gestation_days], outcome)
                decimal_age == corrected_decimal_age(birth_date, observation_date,
                                                     gestation_weeks, gestation_days)
            IN IF outcome = "raise"
               THEN Run(<<c1>>, <<HelpLine>>, 1, "LibraryError")
               ELSE Run(<<c1, c2>>,
                        <<HelpLine,
                          Line("age", [decimal_age |-> decimal_age,
                                       calendar_age |-> calendar_age])>>,
                        0, "none")
       ELSE LET c1 == Call("chronological_decimal_age", d, "ok")
                decimal_age == chronological_decimal_age(birth_date, observation_date)
            IN Run(<<c1, c2>>,
                   <<HelpLine,
                     Line("age", [decimal_age |-> decimal_age,
                                  calendar_age |-> calendar_age])>>,
                   0, "none")

cli_sds(reference, decimal_age, measurement_method, observation_value, sex, outcome) ==
    LET a == [reference |-> reference, age |-> decimal_age,
              measurement_method |-> measurement_method,
              observation_value |-> observation_value, sex |-> sex]
        c == Call("sds_for_measurement", a, outcome)
        result == EngineValue("sds_for_measurement", a)
        cent == CentileOf(result)
    IN IF outcome = "raise" THEN Run(<<c>>, <<>>, 1, "LibraryError")
       ELSE Run(<<c>>, <<Line("SDS", [sds |-> result, centile |-> RoundTo(cent, 1)])>>,
                0, "none")

cli_measurement(reference, decimal_age, sex, measurement_method, sds, outcome) ==
    LET a == MeasurementFromSdsArgs(reference, sds, measurement_method, sex, decimal_age)
        c == Call("measurement_from_sds", a, outcome)
        result == EngineValue("measurement_from_sds", a)
        cent == CentileOf(sds)
        suffix == IF measurement_method = "weight" THEN "kg"
                  ELSE IF measurement_method = "bmi" THEN "kg/m2"
                  ELSE "cm"
    IN IF outcome = "raise" THEN Run(<<c>>, <<>>, 1, "LibraryError")
       ELSE Run(<<c>>,
                <<Line("measurement",
                       [sds |-> sds, centile |-> RoundTo(cent, 3),
                        measurement_method |-> measurement_method,
                        result |-> result, suffix |-> suffix])>>,
                0, "none")

-----------------------------------------------------------------------------
(* The process.                                                            *)

Modes == {"console_script", "run_module", "cli_module"}
MainModes == {"console_script", "run_module"}

(* The names the module body has bound when it reaches its __main__ guard. *)
ModuleNames(m) ==
    IF m = "cli_module"
    THEN {"methods", "age_calculation", "sds", "measurement"}
    ELSE {"methods", "age_calculation", "sds_for_measurement",
          "measurement_for_centile", "measurement_for_sds", "midparental_height"}

Init ==
    /\ pc = "start"
    /\ mode = "none"
    /\ defined = {}
    /\ cmd = "none"
    /\ args = <<>>
    /\ calls = <<>>
    /\ out = <<>>
    /\ exit = -1
    /\ raised = "none"

(* The interpreter runs the module body down to the __main__ guard: the    *)
(* group and the commands are defined and registered, the banner is echoed.*)
LoadModule ==
    /\ pc = "start"
    /\ \E m \in Modes :
         /\ mode' = m
         /\ defined' = ModuleNames(m)
    /\ out' = <<Banner>>
    /\ pc' = "loaded"
    /\ UNCHANGED <<cmd, args, calls, exit, raised>>

(* The module runs as __main__: the guard calls methods() at once, and     *)
(* click exits the process when the command returns.                       *)
RunAsMain ==
    /\ pc = "loaded"
    /\ mode \in {"run_module", "cli_module"}
    /\ pc' = "dispatch"
    /\ UNCHANGED <<mode, defined, cmd, args, calls, out, exit, raised>>

(* The module is imported: the guard is skipped and the import runs on to  *)
(* the def of reference_to_string.                                         *)
DefineReferenceToString ==
    /\ pc = "loaded"
    /\ mode = "console_script"
    /\ defined' = defined \cup {"reference_to_string"}
    /\ pc' = "imported"
    /\ UNCHANGED <<mode, cmd, args, calls, out, exit, raised>>

(* The console script calls methods of the imported module.                *)
EntryPoint ==
    /\ pc = "imported"
    /\ pc' = "dispatch"
    /\ UNCHANGED <<mode, defined, cmd, args, calls, out, exit, raised>>

(* A command body ran to its return or to an uncaught exception.           *)
Finish(name, a, run) ==
    /\ pc' = "exited"
    /\ cmd' = name
    /\ args' = a
    /\ calls' = run.calls
    /\ out' = out \o run.out
    /\ exit' = run.exit
    /\ raised' = run.raised
    /\ UNCHANGED <<mode, defined>>

AgeCalculation ==
    /\ pc = "dispatch"
    /\ mode \in MainModes
    /\ \E b \in DayValues, o \in ObservationDays, w \in GestationWeeks,
          d \in GestationDays, adj \in BOOLEAN :
         Finish("age-calculation",
                [birth_date |-> b, observation_date |-> o, gestation_weeks |-> w,
                 gestation_days |-> d, adjustment |-> adj],
                age_calculation(b, o, w, d, adj))

SdsForMeasurement ==
    /\ pc = "dispatch"
    /\ mode \in MainModes
    /\ \E age \in AgeValues, m \in Methods, v \in ObservationValues, s \in Sexes,
          r \in References, outcome \in EngineOutcomes :
         Finish("sds-for-measurement",
                [decimal_age |-> age, measurement_method |-> m,
                 observation_value |-> v, sex |-> s, reference |-> r],
                sds_for_measurement(defined, age, m, v, s, r, outcome))

MeasurementForCentile ==
    /\ pc = "dispatch"
    /\ mode \in MainModes
    /\ \E age \in AgeValues, s \in Sexes, m \in Methods, c \in CentileValues,
          r \in References, outcome \in EngineOutcomes :
         Finish("measurement-for-centile",
                [decimal_age |-> age, sex |-> s, measurement_method |-> m,
                 centile |-> c, reference |-> r],
                measurement_for_centile(defined, age, s, m, c, r, outcome))

MeasurementForSds ==
    /\ pc = "dispatch"
    /\ mode \in MainModes
    /\ \E r \in References, age \in AgeValues, s \in Sexes, m \in Methods,
          z \in SdsValues, outcome \in EngineOutcomes :
         Finish("measurement-for-sds",
                [reference |-> r, decimal_age |-> age, sex |-> s,
                 measurement_method |-> m, sds |-> z],
                measurement_for_sds(defined, r, age, s, m, z, outcome))

MidparentalHeight ==
    /\ pc = "dispatch"
    /\ mode \in MainModes
    /\ \E mh \in HeightValues, ph \in HeightValues, s \in Sexes :
         \E rounded \in MidparentalRounded(mh, ph, s) :
           Finish("midparental-height",
                  [maternal_height |-> mh, paternal_height |-> ph, sex |-> s],
                  midparental_height(mh, ph, s, rounded))

CliAgeCalculation ==
    /\ pc = "dispatch"
    /\ mode = "cli_module"
    /\ \E b \in DayValues, o \in ObservationDays, w \in GestationWeeks,
          d \in GestationDays, adj \in BOOLEAN :
         \E outcome \in CliGestationOutcomes(w, d) :
           Finish("age-calculation",
                  [birth_date |-> b, observation_date |-> o, gestation_weeks |-> w,
                   gestation_days |-> d, adjustment |-> adj],
                  cli_age_calculation(b, o, w, d, adj, outcome))

CliSds ==
    /\ pc = "dispatch"
    /\ mode = "cli_module"
    /\ \E r \in References, age \in AgeValues, m \in Methods, v \in ObservationValues,
          s \in Sexes, outcome \in EngineOutcomes :
         Finish("sds",
                [reference |-> r, decimal_age |-> age, measurement_method |-> m,
                 observation_value |-> v, sex |-> s],
                cli_sds(r, age, m, v, s, outcome))

CliMeasurement ==
    /\ pc = "dispatch"
    /\ mode = "cli_module"
    /\ \E r \in References, age \in AgeValues, s \in Sexes, m \in Methods,
          z \in SdsValues, outcome \in EngineOutcomes :
         Finish("measurement",
                [reference |-> r, decimal_age |-> age, sex |-> s,
                 measurement_method |-> m, sds |-> z],
                cli_measurement(r, age, s, m, z, outcome))

Next ==
    \/ LoadModule
    \/ RunAsMain
    \/ DefineReferenceToString
    \/ EntryPoint
    \/ AgeCalculation
    \/ SdsForMeasurement
    \/ MeasurementForCentile
    \/ MeasurementForSds
    \/ MidparentalHeight
    \/ CliAgeCalculation
    \/ CliSds
    \/ CliMeasurement

Spec == Init /\ [][Next]_vars

-----------------------------------------------------------------------------
(* Properties.                                                             *)

Exited == pc = "exited"
HasLine(tag) == \E i \in 1..Len(out) : out[i].tag = tag
SomeCallRaised == \E i \in 1..Len(calls) : calls[i].outcome = "raise"

(* The measurement, with its method and unit, shown in a terminal output.  *)
MeasurementShown(o) ==
    {[measurement_method |-> o[i].val.measurement_method,
      result |-> o[i].val.result,
      suffix |-> o[i].val.suffix] : i \in {j \in 1..Len(o) : o[j].tag = "measurement"}}

(* C1: for every centile outside the open interval (0, 100), 0 and 100     *)
(* included, measurement-for-centile reports an ArithmeticDomainError,     *)
(* prints no measurement and hands measurement_from_sds no non-finite SDS. *)
C1_OutOfDomainCentileRejected ==
    (Exited /\ cmd = "measurement-for-centile"
            /\ (args.centile <= 0 \/ args.centile >= 100))
    => /\ raised = "ArithmeticDomainError"
       /\ ~HasLine("measurement")
       /\ \A i \in 1..Len(calls) :
            calls[i].fn = "measurement_from_sds" => IsFinite(calls[i].args.requested_sds)

(* C2: when mid_parental_height raises, midparental-height surfaces the    *)
(* error to the user (an error line or an exception reaching the user) and *)
(* the process exits non-zero.                                             *)
C2_MidparentalErrorSurfaced ==
    (Exited /\ cmd = "midparental-height" /\ SomeCallRaised)
    => /\ exit # 0
       /\ (raised # "none" \/ HasLine("Error"))

(* C3: whenever the mid_parental_height call fails, midparental-height     *)
(* prints no 'Midparental height' line.                                    *)
C3_NoHeightAfterFailure ==
    (Exited /\ cmd = "midparental-height" /\ SomeCallRaised)
    => ~HasLine("Midparental height")

C3_Witness ==
    /\ Exited
    /\ cmd = "midparental-height"
    /\ args.maternal_height = -500
    /\ Len(calls) = 1
    /\ calls[1].fn = "mid_parental_height"
    /\ calls[1].outcome = "raise"

(* C4: age-calculation rejects a gestation outside the clinical bounds     *)
(* (weeks < 22 or > 44, days outside [0,6]) with an error and prints no    *)
(* age for it.                                                             *)
C4_GestationRejected ==
    (Exited /\ cmd = "age-calculation"
            /\ ~GestationValid(args.gestation_weeks, args.gestation_days))
    => /\ raised # "none"
       /\ exit # 0
       /\ ~HasLine("Adjusted") /\ ~HasLine("Unadjusted") /\ ~HasLine("age")

(* C5: in age-calculation the printed decimal age and the printed calendar *)
(* breakdown are both computed against the gestation-corrected birth date  *)
(* when --adjustment is set, and both against the actual birth date when   *)
(* it is not.                                                              *)
C5_SameBirthDate ==
    Exited /\ cmd = "age-calculation"
    => \A i \in 1..Len(out) :
         out[i].tag \in {"Adjusted", "Unadjusted", "age"}
         => LET b == IF args.adjustment
                     THEN args.birth_date
                          + (280 - (7 * args.gestation_weeks + args.gestation_days))
                     ELSE args.birth_date
            IN /\ out[i].val.decimal_age.days = args.observation_date - b
               /\ out[i].val.calendar_age.from = b
               /\ out[i].val.calendar_age.to = args.observation_date

(* C6: for every centile c in (0, 100), measurement-for-centile makes the  *)
(* measurement_from_sds call that measurement-for-sds makes for the SDS    *)
(* norm.ppf(c / 100), with reference, age, sex and method unchanged, and   *)
(* shows the same measurement.                                             *)
C6_CentileAgreesWithSds ==
    (Exited /\ cmd = "measurement-for-centile"
            /\ args.centile > 0 /\ args.centile < 100)
    => /\ Len(calls) = 1
       /\ LET r == measurement_for_sds(defined, args.reference, args.decimal_age,
                                       args.sex, args.measurement_method,
                                       Finite(PpfTable[args.centile]),
                                       calls[1].outcome)
          IN /\ calls = r.calls
             /\ exit = r.exit
             /\ MeasurementShown(out) = MeasurementShown(r.out)

C6_Witness ==
    /\ Exited
    /\ cmd = "measurement-for-centile"
    /\ args.centile = 25
    /\ args.reference = "trisomy-21"
    /\ args.sex = "female"
    /\ Len(calls) = 1
    /\ calls[1].outcome = "ok"
    /\ calls[1].args.requested_sds = Finite(-674490)
    /\ HasLine("measurement")

(* C7: the unit printed with a measurement depends on measurement_method   *)
(* alone: cm for height and ofc, kg for weight, kg/m2 for bmi, in every    *)
(* command that prints a measurement.                                      *)
C7_UnitByMethod ==
    \A i \in 1..Len(out) :
      out[i].tag = "measurement"
      => LET m == out[i].val.measurement_method
             u == out[i].val.suffix
         IN /\ m \in {"height", "ofc"} => u = "cm"
            /\ m = "weight" => u = "kg"
            /\ m = "bmi" => u = "kg/m2"

C7_Witness ==
    /\ Exited
    /\ cmd = "measurement-for-centile"
    /\ args.measurement_method = "ofc"
    /\ args.reference = "turners-syndrome"
    /\ \E i \in 1..Len(out) :
         /\ out[i].tag = "measurement"
         /\ out[i].val.measurement_method = "ofc"
         /\ out[i].val.suffix = "cm"

(* C8: if the engine call fails, sds-for-measurement, measurement-for-     *)
(* centile and measurement-for-sds print none of their Reference, SDS,     *)
(* Centile or measurement lines, and the failure ends the invocation.      *)
C8_NoPartialResult ==
    (Exited /\ cmd \in {"sds-for-measurement", "measurement-for-centile",
                        "measurement-for-sds"}
            /\ SomeCallRaised)
    => /\ ~HasLine("Reference") /\ ~HasLine("SDS") /\ ~HasLine("measurement")
       /\ exit # 0
       /\ raised # "none"

C8_Witness ==
    /\ Exited
    /\ mode = "console_script"
    /\ cmd = "sds-for-measurement"
    /\ Len(calls) = 1
    /\ calls[1].fn = "sds_for_measurement"
    /\ calls[1].outcome = "raise"
    /\ out = <<Banner>>

ValidHeights ==
    /\ args.maternal_height >= 10000 /\ args.maternal_height <= 25000
    /\ args.paternal_height >= 10000 /\ args.paternal_height <= 25000

(* The clinical formula, in thousandths of a cm.                           *)
ClinicalFormula ==
    IF args.sex = "male"
    THEN (args.maternal_height + args.paternal_height + 1300) * 5
    ELSE (args.maternal_height + args.paternal_height - 1300) * 5

(* C9 as stated: for valid parental heights midparental-height prints      *)
(* exactly (maternal + paternal + 13) / 2 for a male and (maternal +       *)
(* paternal - 13) / 2 for a female.                                        *)
C9_PrintsExactFormula ==
    (Exited /\ cmd = "midparental-height" /\ ValidHeights)
    => \E i \in 1..Len(out) :
         /\ out[i].tag = "Midparental height"
         /\ out[i].val * 10 = ClinicalFormula

(* C9 amended: for valid parental heights midparental-height passes the    *)
(* maternal argument as the maternal height, the paternal argument as the  *)
(* paternal height and the sex unchanged, and prints the formula's value   *)
(* rounded to two decimal places: within 0.005 cm of it, and equal to it   *)
(* when it has at most two decimals (170, 180, male gives 181.5).          *)
C9_PrintsRoundedFormula ==
    (Exited /\ cmd = "midparental-height" /\ ValidHeights)
    => /\ Len(calls) = 1
       /\ calls[1].fn = "mid_parental_height"
       /\ calls[1].args.height_maternal = args.maternal_height
       /\ calls[1].args.height_paternal = args.paternal_height
       /\ calls[1].args.sex = args.sex
       /\ \E i \in 1..Len(out) :
            /\ out[i].tag = "Midparental height"
            /\ out[i].val * 10 - ClinicalFormula \in -5..5
            /\ ClinicalFormula % 10 = 0 => out[i].val * 10 = ClinicalFormula

C9_Witness ==
    /\ Exited
    /\ cmd = "midparental-height"
    /\ args.maternal_height = 17000
    /\ args.paternal_height = 18000
    /\ args.sex = "male"
    /\ out = <<Banner, Line("Midparental height", 18150)>>

(* C10: on every way of starting the program reference_to_string is        *)
(* defined before a command body that calls it runs, and no command fails  *)
(* on an undefined name.                                                   *)
C10_HelperDefinedBeforeCommands ==
    /\ (pc = "dispatch" /\ mode \in MainModes) => "reference_to_string" \in defined
    /\ raised # "NameError"

=============================================================================
